---- MODULE Spec2Model ----
(***************************************************************************)
(* A model of the par-trie crate: RawTrie (src/src/lib.rs), Node           *)
(* (src/src/node.rs) and the Found accumulator (src/src/lib.rs).           *)
(*                                                                         *)
(* Heap nodes are numbered 1..Len(nodes) in allocation order; the pointer  *)
(* word 0 is Shared::null().  Rust slices are 0-based, TLA+ sequences are  *)
(* 1-based: slot i of the code is element i + 1 of the model, and an       *)
(* Option<usize> is modelled as 0 (None) or index + 1 (Some(index)).       *)
(***************************************************************************)
EXTENDS Integers, Sequences, FiniteSets, TLC

\* ------------------------------------------------------------------------
\* Program constants and model bounds
\* ------------------------------------------------------------------------

\* lib.rs:62   vec![Atomic::null(); 26 / 2]
RootInitCap == 13
\* node.rs:54  vec![Atomic::null(); 26 / 2]
ChildCap == 13

\* Elements of the small alphabet of the exhaustive specifications.
NumVals == 3
\* Longest sequence inserted or searched.
MaxLen == 3
\* Number of insert calls of a run of Spec.
MaxInserts == 3
\* Number of insert calls of a run of SpecFind.
MaxInsertsFind == 2
\* Iterations without progress of the prefix walk that are counted.
MaxSpin == 2
\* Distinct first elements inserted in a run of SpecGrow: enough for the
\* root array to grow from 13 to 26 and from 26 to 52 slots.
GrowRoots == 26
\* Sequences of two or more elements inserted in a run of SpecGrow.
MaxDeep == 1
\* Threads that insert concurrently in SpecConc.
NumThreads == 2
\* The width of a pointer word (usize) in bits.
WordBits == 4

Threads == 1..NumThreads

Vals == 1..NumVals

SeqsUpTo(S, k) == UNION {[1..m -> S] : m \in 0..k}

Seqs == SeqsUpTo(Vals, MaxLen)

Min(S) == CHOOSE x \in S : \A y \in S : x <= y

\* The non-empty prefixes of a sequence (the sequence itself included).
Prefixes(s) == {SubSeq(s, 1, k) : k \in 1..Len(s)}

IsPrefix(p, s) == Len(p) <= Len(s) /\ SubSeq(s, 1, Len(p)) = p

SeqToSet(s) == {s[i] : i \in 1..Len(s)}

VARIABLES
  root,         \* RawTrie.root: the root array, a sequence of node pointers
  len,          \* RawTrie.len
  resize_flag,  \* RawTrie.resize_flag
  nodes,        \* the heap: nodes[id] is the Node that pointer id refers to
  panicked,     \* a call ended in a panic (todo!, a failed assert!)
  hung,         \* a call entered a loop it can never leave
  inserted,     \* history: the sequences passed to insert so far
  last,         \* history: the argument of the latest insert call
  ninserts,     \* history: number of insert calls so far
  fpc,          \* find call in progress: "idle", "searching" or "done"
  fkeys,        \* find: the prefix k
  fnode,        \* RawTrie::searching: node
  findex,       \* RawTrie::searching: index
  found,        \* find: the Found accumulator
  fspin,        \* history: iterations of the prefix walk that matched no child
  fprev,        \* history: prefix and result of the latest find call that
                \* returned since the latest insert
  th,           \* th[t]: position and locals of thread t inside insert_seq
  todo,         \* the words of the word list not yet handed to a thread
  rgen,         \* the allocation that RawTrie.root points to: the number of
                \* root arrays installed (and root arrays dropped) so far
  uaf           \* history: a thread accessed a root array after it was dropped

trieVars == <<root, len, resize_flag, nodes, panicked, hung>>
histVars == <<inserted, last, ninserts>>
findVars == <<fpc, fkeys, fnode, findex, found, fspin, fprev>>
thrVars == <<th, todo>>
memVars == <<rgen, uaf>>
vars == <<trieVars, histVars, findVars, thrVars, memVars>>

\* ------------------------------------------------------------------------
\* Node (src/src/node.rs)
\* ------------------------------------------------------------------------

\* Node::new: all child slots null, count zero.  The in_use field is never
\* read or written after construction and is left out.
NewNode(val, terminal) ==
  [val |-> val,
   children |-> [i \in 1..ChildCap |-> 0],
   child_count |-> 0,
   terminal |-> terminal]

\* Node::child_len
ChildLen(n, p) == n[p].child_count

\* Node::is_terminal
IsTerminal(n, p) == n[p].terminal

\* Node::children_iter: the non-null child slots, in slot order.
RECURSIVE NonNullFrom(_, _)
NonNullFrom(s, i) ==
  IF i > Len(s) THEN <<>>
  ELSE IF s[i] = 0 THEN NonNullFrom(s, i + 1)
  ELSE <<s[i]>> \o NonNullFrom(s, i + 1)

\* Mutant of ChildrenIter: the non-null child slots from the last slot to
\* the first.
ChildrenIter_Rev(n, p) ==
  LET kids == NonNullFrom(n[p].children, 1)
  IN [i \in 1..Len(kids) |-> kids[Len(kids) + 1 - i]]

ChildrenIter(n, p) == NonNullFrom(n[p].children, 1)

\* Node::child_position: index + 1 of the first non-null child with the
\* value, 0 for None.
ChildPosition(n, p, val) ==
  LET hits == {i \in 1..Len(n[p].children) :
                 n[p].children[i] # 0 /\ n[n[p].children[i]].val = val}
  IN IF hits = {} THEN 0 ELSE Min(hits)

\* Node::find_node: the first non-null child with the value (its pointer),
\* 0 for None.
FindNode(n, p, val) ==
  LET pos == ChildPosition(n, p, val)
  IN IF pos = 0 THEN 0 ELSE n[p].children[pos]

\* Node::last_child: children.get(child_len() - 1), loaded.
LastChild(n, p) ==
  IF ChildLen(n, p) >= 1 /\ ChildLen(n, p) <= Len(n[p].children)
  THEN n[p].children[ChildLen(n, p)]
  ELSE 0

\* Mutant of AddChild: the check for a child with the same value is gone.
AddChild_NoMatch(n, p, val, term) ==
  LET l == n[p].child_count
      id == Len(n) + 1
  IN IF l >= Len(n[p].children) \/ n[p].children[l + 1] # 0
     THEN [nodes |-> n, ret |-> 0, panic |-> TRUE]
     ELSE [nodes |-> Append([n EXCEPT ![p].children[l + 1] = id,
                                      ![p].child_count = l + 1],
                            NewNode(val, term)),
           ret |-> id, panic |-> FALSE]

\* Mutant of AddChild: the capacity test is gone; a child beyond the last
\* slot is counted but stored nowhere.
AddChild_NoCap(n, p, val, term) ==
  LET l == n[p].child_count
      pos == ChildPosition(n, p, val)
      id == Len(n) + 1
  IN IF pos # 0
     THEN [nodes |-> n, ret |-> n[p].children[pos], panic |-> FALSE]
     ELSE [nodes |-> Append([n EXCEPT ![p].children =
                                        [i \in 1..Len(n[p].children) |->
                                           IF i = l + 1 THEN id
                                           ELSE n[p].children[i]],
                                      ![p].child_count = l + 1],
                            NewNode(val, term)),
           ret |-> id, panic |-> FALSE]

\* Node::add_child, run without interruption.  The result carries the heap,
\* the returned pointer and whether the call panicked.
AddChild(n, p, val, term) ==
  LET l == ChildLen(n, p)
      pos == ChildPosition(n, p, val)
      id == Len(n) + 1
  IN IF l >= Len(n[p].children)
     THEN [nodes |-> n, ret |-> 0, panic |-> TRUE]
     ELSE IF pos # 0
     THEN [nodes |-> n, ret |-> n[p].children[pos], panic |-> FALSE]
     ELSE IF n[p].children[l + 1] # 0
     THEN [nodes |-> n, ret |-> 0, panic |-> TRUE]
     ELSE LET n1 == Append([n EXCEPT ![p].children[l + 1] = id,
                                     ![p].child_count = l + 1],
                           NewNode(val, term))
          IN [nodes |-> n1, ret |-> LastChild(n1, p), panic |-> FALSE]

\* ------------------------------------------------------------------------
\* RawTrie (src/src/lib.rs)
\* ------------------------------------------------------------------------

\* Mutant of Position: when no root node matches, the first root node is
\* taken.
Position_Fallback(r, n, key) ==
  LET hits == {i \in 1..Len(r) : r[i] # 0 /\ n[r[i]].val = key}
  IN IF hits # {} THEN Min(hits) ELSE IF r[1] # 0 THEN 1 ELSE 0

\* RawTrie::position: index + 1 of the first non-null root slot whose node
\* has the value, 0 for None.
Position(r, n, key) ==
  LET hits == {i \in 1..Len(r) : r[i] # 0 /\ n[r[i]].val = key}
  IN IF hits = {} THEN 0 ELSE Min(hits)

\* Mutant of ResizeCheck: the copy loop stops one slot early.
ResizeCheck_Short(r, l, flag) ==
  IF l + 1 < Len(r) \/ ~flag
  THEN [root |-> r, len |-> l, resize_flag |-> flag]
  ELSE [root |-> [i \in 1..(Len(r) * 2) |-> IF i < l THEN r[i] ELSE 0],
        len |-> l, resize_flag |-> FALSE]

\* Mutant of ResizeCheck: len is set to the capacity copied from, not to
\* the number of copied slots.
ResizeCheck_Count(r, l, flag) ==
  IF l + 1 < Len(r) \/ ~flag
  THEN [root |-> r, len |-> l, resize_flag |-> flag]
  ELSE [root |-> [i \in 1..(Len(r) * 2) |-> IF i <= l THEN r[i] ELSE 0],
        len |-> Len(r), resize_flag |-> FALSE]

\* Mutant of ResizeCheck: the new array is 13 slots longer, not twice as
\* long.
ResizeCheck_Linear(r, l, flag) ==
  IF l + 1 < Len(r) \/ ~flag
  THEN [root |-> r, len |-> l, resize_flag |-> flag]
  ELSE [root |-> [i \in 1..(Len(r) + RootInitCap) |->
                    IF i <= l THEN r[i] ELSE 0],
        len |-> l, resize_flag |-> FALSE]

\* RawTrie::resize_check, run without interruption by the thread that set
\* resize_flag.  l is the value of self.len().  The new array has twice the
\* capacity; slots 0..len are copied by CAS into its null slots.
ResizeCheck(r, l, flag) ==
  IF l + 1 < Len(r)
  THEN [root |-> r, len |-> l, resize_flag |-> flag]
  ELSE IF ~flag
  THEN [root |-> r, len |-> l, resize_flag |-> flag]
  ELSE LET new_len == Len(r) * 2
           new == [i \in 1..new_len |-> IF i <= l THEN r[i] ELSE 0]
           new_count == l
       IN [root |-> new, len |-> new_count, resize_flag |-> FALSE]

\* Mutant of PushReturn: the fetch_add on len is gone.
PushReturn_NoInc(r, l, val) ==
  IF l + 1 > Len(r)
  THEN [root |-> r, len |-> l, ret |-> 0, hang |-> TRUE]
  ELSE IF r[l + 1] = 0
  THEN [root |-> [r EXCEPT ![l + 1] = val], len |-> l, ret |-> val,
        hang |-> FALSE]
  ELSE [root |-> r, len |-> l, ret |-> 0, hang |-> FALSE]

\* RawTrie::push_return, run without interruption: CAS the slot at index
\* self.len() from null to val.  ret is the slot's content on success and 0
\* when the result is Err; hang is the loop that never finds a slot.
PushReturn(r, l, val) ==
  IF l + 1 > Len(r)
  THEN [root |-> r, len |-> l, ret |-> 0, hang |-> TRUE]
  ELSE IF r[l + 1] = 0
  THEN [root |-> [r EXCEPT ![l + 1] = val], len |-> l + 1, ret |-> val,
        hang |-> FALSE]
  ELSE [root |-> r, len |-> l, ret |-> 0, hang |-> FALSE]

\* RawTrie::insert_rest: the elements vals[idx..] are added below node, one
\* add_child per element.  node = 0 is None: the loop then never advances.
RECURSIVE InsertRest(_, _, _, _)
InsertRest(n, vals, node, idx) ==
  IF idx >= Len(vals)
  THEN [nodes |-> n, panic |-> FALSE, hang |-> FALSE]
  ELSE IF node = 0
  THEN [nodes |-> n, panic |-> FALSE, hang |-> TRUE]
  ELSE LET a == AddChild(n, node, vals[idx + 1], idx + 1 = Len(vals))
       IN IF a.panic
          THEN [nodes |-> a.nodes, panic |-> TRUE, hang |-> FALSE]
          ELSE InsertRest(a.nodes, vals, a.ret, idx + 1)

\* RawTrie::insert_seq, run without interruption on the trie (r, l, flag, n).
InsertSeq(r, l, flag, n, vals) ==
  LET grow == l + 1 >= Len(r)
      spin == grow /\ flag
      rz == IF grow /\ ~flag THEN ResizeCheck(r, l, TRUE)
            ELSE [root |-> r, len |-> l, resize_flag |-> flag]
      idx == IF vals = <<>> THEN 0 ELSE Position(rz.root, n, vals[1])
      term == (l + 1) = Len(vals)
      id == Len(n) + 1
      pr == PushReturn(rz.root, rz.len, id)
      n1 == IF pr.ret = id THEN Append(n, NewNode(vals[1], term)) ELSE n
      rest == IF idx # 0 THEN InsertRest(n, vals, rz.root[idx], 1)
              ELSE InsertRest(n1, vals, pr.ret, 1)
      same == [root |-> rz.root, len |-> rz.len, resize_flag |-> rz.resize_flag,
               nodes |-> n, panic |-> FALSE, hang |-> FALSE]
  IN IF spin
     THEN [root |-> r, len |-> l, resize_flag |-> flag, nodes |-> n,
           panic |-> FALSE, hang |-> TRUE]
     ELSE IF vals = <<>> THEN same
     ELSE IF idx # 0
     THEN [same EXCEPT !.nodes = rest.nodes, !.panic = rest.panic,
                       !.hang = rest.hang]
     ELSE IF pr.hang THEN [same EXCEPT !.hang = TRUE]
     ELSE [root |-> pr.root, len |-> pr.len, resize_flag |-> rz.resize_flag,
           nodes |-> rest.nodes, panic |-> rest.panic, hang |-> rest.hang]

\* ------------------------------------------------------------------------
\* Found (src/src/lib.rs)
\* ------------------------------------------------------------------------

\* Mutant of NewFound: the collected vector of the previous find call is
\* handed out again instead of an empty one.
NewFound_Reuse == [temp |-> <<>>, collected |-> fprev.collected]

\* Found::new.  roll_back is never touched again and is left out.
NewFound == [temp |-> <<>>, collected |-> <<>>]

\* Found::push_val
PushVal(f, t) == [f EXCEPT !.temp = Append(f.temp, t)]

\* Found::branch_end_continue
BranchEndContinue(f) == [f EXCEPT !.collected = Append(f.collected, f.temp)]

\* Found::branch_split: cut temp after the first item equal to key.
BranchSplit(f, key) ==
  LET hits == {i \in 1..Len(f.temp) : f.temp[i] = key}
  IN IF hits = {} THEN f
     ELSE [f EXCEPT !.temp = SubSeq(f.temp, 1, Min(hits))]

\* Found::branch_end: collect temp, then pop its last element.
BranchEnd(f) ==
  [temp |-> IF f.temp = <<>> THEN <<>> ELSE SubSeq(f.temp, 1, Len(f.temp) - 1),
   collected |-> Append(f.collected, f.temp)]

\* RawTrie::searching::recurse: the depth-first walk below node.
RECURSIVE Recurse(_, _, _)
RECURSIVE RecurseChildren(_, _, _, _, _)
Recurse(n, node, f) ==
  IF IsTerminal(n, node) /\ ChildLen(n, node) = 0
  THEN BranchEnd(f)
  ELSE RecurseChildren(n, node, ChildrenIter(n, node), 1,
                       IF IsTerminal(n, node) THEN BranchEndContinue(f) ELSE f)

\* The for loop of recurse over the snapshot kids of the node's children.
RecurseChildren(n, node, kids, i, f) ==
  IF i > Len(kids) THEN f
  ELSE LET f1 == Recurse(n, kids[i], PushVal(f, n[kids[i]].val))
           f2 == IF ~IsTerminal(n, node) /\ ChildLen(n, node) > 1
                 THEN BranchSplit(f1, n[node].val)
                 ELSE f1
       IN RecurseChildren(n, node, kids, i + 1, f2)

\* One iteration of the while loop of RawTrie::searching at index: the node
\* and accumulator after it.  A missing child changes nothing, the index
\* included.
SearchingIter(n, node, key, index, f) ==
  LET c == FindNode(n, node, key[index + 1])
  IN IF c = 0
     THEN [node |-> node, index |-> index, found |-> f]
     ELSE [node |-> c, index |-> index + 1, found |-> PushVal(f, n[c].val)]

\* RawTrie::searching from loop index: the prefix walk, then recurse.  hang
\* says that the while loop repeats one iteration for ever.
RECURSIVE Searching(_, _, _, _, _)
Searching(n, node, key, index, f) ==
  IF index < Len(key)
  THEN LET s == SearchingIter(n, node, key, index, f)
       IN IF s.index = index
          THEN [found |-> f, hang |-> TRUE]
          ELSE Searching(n, s.node, key, s.index, s.found)
  ELSE [found |-> Recurse(n, node, f), hang |-> FALSE]

\* RawTrie::find on the trie (r, n).
Find(r, n, keys) ==
  IF keys = <<>> THEN [found |-> NewFound, hang |-> FALSE]
  ELSE LET idx == Position(r, n, keys[1])
       IN IF idx = 0 THEN [found |-> NewFound, hang |-> FALSE]
          ELSE Searching(n, r[idx], keys, 1, PushVal(NewFound, n[r[idx]].val))

\* What a caller of find sees in the current state.
FindNow(keys) == Find(root, nodes, keys)

Collected(keys) == SeqToSet(FindNow(keys).found.collected)

\* ------------------------------------------------------------------------
\* Single-threaded specification: insert calls run to completion
\* ------------------------------------------------------------------------

\* A thread outside insert_seq.  The fields are the locals of insert_seq
\* (vals, len, shared), position's result (pos), insert_rest (node, idx),
\* push_return (plen), add_child (clen) and resize_check (rlen, rroot, ridx,
\* new_count).
IdleThread ==
  [pc |-> "idle", vals |-> <<>>, len |-> 0, pos |-> 0, node |-> 0, idx |-> 0,
   shared |-> 0, plen |-> 0, clen |-> 0, rlen |-> 0, rroot |-> <<>>,
   ridx |-> 0, new_count |-> 0, rref |-> 0]

\* No find call has returned since the latest insert.  (find of the empty
\* prefix returns an empty list on every trie.)
NoPrev == [keys |-> <<>>, collected |-> <<>>]

\* RawTrie::new
Init ==
  /\ fprev = NoPrev
  /\ root = [i \in 1..RootInitCap |-> 0]
  /\ len = 0
  /\ resize_flag = FALSE
  /\ nodes = <<>>
  /\ panicked = FALSE
  /\ hung = FALSE
  /\ inserted = {}
  /\ last = <<>>
  /\ ninserts = 0
  /\ fpc = "idle"
  /\ fkeys = <<>>
  /\ fnode = 0
  /\ findex = 0
  /\ found = NewFound
  /\ fspin = 0
  /\ th = [t \in Threads |-> IdleThread]
  /\ todo = {}
  /\ rgen = 0
  /\ uaf = FALSE

\* ParTrie::len
TrieLen == len

\* ParTrie::is_empty
IsEmpty == TrieLen = 0

\* ParTrie::insert(vals) by the only thread, run to completion.
Insert(vals) ==
  /\ ~panicked /\ ~hung
  /\ LET s == InsertSeq(root, len, resize_flag, nodes, vals)
     IN /\ root' = s.root
        /\ len' = s.len
        /\ resize_flag' = s.resize_flag
        /\ nodes' = s.nodes
        /\ panicked' = s.panic
        /\ hung' = s.hang
  /\ inserted' = inserted \cup {vals}
  /\ last' = vals
  /\ rgen' = IF Len(root') # Len(root) THEN rgen + 1 ELSE rgen
  /\ UNCHANGED uaf

InsertAny ==
  /\ ninserts < MaxInserts
  /\ \E vals \in Seqs : Insert(vals)
  /\ ninserts' = ninserts + 1
  /\ UNCHANGED <<findVars, thrVars>>

Next == InsertAny

Spec == Init /\ [][Next]_vars

\* ------------------------------------------------------------------------
\* Properties of the single-threaded specification
\* ------------------------------------------------------------------------

\* The inserted sequences that extend the prefix p.
Extending(p) == {S \in inserted : S # <<>> /\ IsPrefix(p, S)}

\* The distinct first elements of the inserted sequences.
FirstElements == {S[1] : S \in inserted \ {<<>>}}

\* C1: every non-empty inserted sequence S is in the collected result of
\* find(p) for every non-empty prefix p of S, p = S included.
C1_RoundTrip ==
  \A S \in inserted \ {<<>>} : \A p \in Prefixes(S) :
    ~FindNow(p).hang /\ S \in Collected(p)

\* C2: every collected sequence of find(p) is an inserted sequence that
\* extends p, and there are as many collected entries as distinct inserted
\* sequences that extend p.
C2_Exact ==
  \A p \in Seqs \ {<<>>} :
    ~FindNow(p).hang =>
      /\ Collected(p) \subseteq Extending(p)
      /\ Len(FindNow(p).found.collected) = Cardinality(Extending(p))

\* C3: an insert of S right after an insert of the same non-empty S creates
\* no node, changes no child_count, terminal flag or len, and leaves every
\* find result as it was.
C3_Idempotent ==
  [][\A S \in inserted \ {<<>>} :
       (last = S /\ Insert(S)) =>
         /\ nodes' = nodes
         /\ len' = len
         /\ \A p \in Seqs : Find(root', nodes', p) = Find(root, nodes, p)]_vars

\* C3 witness: two calls were made, both with the same sequence of two or
\* more elements.
C3_Witness ==
  /\ ninserts = 2
  /\ Cardinality(inserted) = 1
  /\ Len(last) >= 2
  /\ ~panicked /\ ~hung

\* C4: len() is the number of distinct first elements of the inserted
\* sequences, and is_empty() holds exactly when there is none.
C4_RootCount ==
  /\ TrieLen = Cardinality(FirstElements)
  /\ IsEmpty <=> FirstElements = {}

\* C4 witness: three sequences of three elements were inserted, with two
\* distinct first elements (as cat, cow, bob).
C4_Witness ==
  /\ Cardinality(inserted) = 3
  /\ Cardinality(FirstElements) = 2
  /\ TrieLen = 2
  /\ \A S \in inserted : Len(S) = 3

\* The node at the end of the path s of the trie, 0 when there is none.
RECURSIVE PathFrom(_, _, _)
PathFrom(node, s, i) ==
  IF i > Len(s) \/ node = 0 THEN node
  ELSE PathFrom(FindNode(nodes, node, s[i]), s, i + 1)

PathNode(s) ==
  IF s = <<>> \/ Position(root, nodes, s[1]) = 0 THEN 0
  ELSE PathFrom(root[Position(root, nodes, s[1])], s, 2)

\* The first index at which two sequences differ (one past the shorter one
\* when it is a prefix of the other).
FirstDiff(a, b) ==
  Min({k \in 1..(Len(a) + 1) : k > Len(a) \/ k > Len(b) \/ a[k] # b[k]})

\* Depth-first order by first insertion: a comes before b when a is a
\* proper prefix of b, or when at the first element where they differ the
\* branch of a was created before the branch of b (nodes are numbered in
\* the order of their creation).
DfsBefore(a, b) ==
  LET k == FirstDiff(a, b)
  IN IF k > Len(a) THEN Len(b) > Len(a)
     ELSE k <= Len(b)
          /\ PathNode(SubSeq(a, 1, k)) < PathNode(SubSeq(b, 1, k))

\* C16: the children of every node (and the root nodes) lie in their slots
\* in the order of their creation; whenever find(p) collects the inserted
\* sequences that extend p, each once, it lists them in depth-first order by
\* first insertion; and after insert(A), insert(B) with A and B of three
\* elements that share the first element only (as cat, cow), find of that
\* element returns <<A, B>>.
C16_Order ==
  /\ \A p \in 1..Len(nodes) : \A i, j \in 1..ChildCap :
       (i < j /\ nodes[p].children[j] # 0)
         => (nodes[p].children[i] # 0
             /\ nodes[p].children[i] < nodes[p].children[j])
  /\ \A i, j \in 1..Len(root) :
       (i < j /\ root[j] # 0) => (root[i] # 0 /\ root[i] < root[j])
  /\ \A p \in Seqs \ {<<>>} :
       LET c == FindNow(p).found.collected
       IN (SeqToSet(c) = Extending(p) /\ Len(c) = Cardinality(Extending(p)))
            => \A i, j \in 1..Len(c) : i < j => DfsBefore(c[i], c[j])
  /\ \A A \in inserted :
       (/\ ninserts = 2 /\ Cardinality(inserted) = 2 /\ A # last
        /\ Len(A) = 3 /\ Len(last) = 3 /\ A[1] = last[1] /\ A[2] # last[2])
         => FindNow(<<A[1]>>).found.collected = <<A, last>>

\* C16 witness: two sequences of three elements that share the first
\* element only were inserted, and find of that element has collected both.
C16_Witness ==
  /\ ninserts = 2
  /\ Cardinality(inserted) = 2
  /\ Len(last) = 3
  /\ \E A \in inserted :
       /\ A # last /\ Len(A) = 3 /\ A[1] = last[1] /\ A[2] # last[2]
       /\ Len(FindNow(<<A[1]>>).found.collected) = 2

\* C17: an insert of S that finds the node at the end of the path S already
\* in the trie leaves that node terminal.
C17_LateTerminal ==
  [][\A S \in Seqs \ {<<>>} :
       (Insert(S) /\ PathNode(S) # 0) => IsTerminal(nodes', PathNode(S))]_vars

\* C18: an insert of S whose first element is at no root node creates a
\* root node that is terminal exactly when S has one element.
C18_RootTerminal ==
  [][\A S \in Seqs \ {<<>>} :
       (Insert(S) /\ Position(root, nodes, S[1]) = 0) =>
         /\ Position(root', nodes', S[1]) # 0
         /\ IsTerminal(nodes', root'[Position(root', nodes', S[1])])
              = (Len(S) = 1)]_vars

\* The paths from the root to the terminal nodes at and below node, whose
\* own path is path, in the order of a depth-first walk that visits the
\* children in slot order.
RECURSIVE TerminalPaths(_, _, _)
RECURSIVE TerminalPathsOf(_, _, _, _)
TerminalPaths(n, node, path) ==
  (IF IsTerminal(n, node) THEN <<path>> ELSE <<>>)
    \o TerminalPathsOf(n, ChildrenIter(n, node), 1, path)

TerminalPathsOf(n, kids, i, path) ==
  IF i > Len(kids) THEN <<>>
  ELSE TerminalPaths(n, kids[i], Append(path, n[kids[i]].val))
         \o TerminalPathsOf(n, kids, i + 1, path)

\* No inserted sequence holds an element twice.
NoRepeats ==
  \A S \in inserted : \A i, j \in 1..Len(S) : i # j => S[i] # S[j]

\* C26: each time the walk of find visits a terminal node, temp (the entry
\* appended to collected at that moment) is the path from the root to that
\* node: the collected list of find(p) is the list of the paths of the
\* terminal nodes at and below the node of p, in the order of the walk.
\* (Stated for tries without repeated elements on a path, which are the
\* matter of C27.)
C26_FoundPath ==
  \A p \in Seqs \ {<<>>} :
    (NoRepeats /\ PathNode(p) # 0 /\ ~FindNow(p).hang) =>
      FindNow(p).found.collected = TerminalPaths(nodes, PathNode(p), p)

\* C27: at a node that is not terminal and has more than one child, after
\* the walk of any child's subtree and the branch_split that follows it,
\* temp is again the path from the root to the node.
C27_BranchTruncation ==
  \A P \in Seqs \ {<<>>} :
    (/\ PathNode(P) # 0
     /\ ~IsTerminal(nodes, PathNode(P))
     /\ ChildLen(nodes, PathNode(P)) > 1) =>
      \A i \in 1..ChildLen(nodes, PathNode(P)) :
        LET q == PathNode(P)
            k == ChildrenIter(nodes, q)[i]
            f == Recurse(nodes, k,
                         PushVal([temp |-> P, collected |-> <<>>], nodes[k].val))
        IN BranchSplit(f, nodes[q].val).temp = P

\* ------------------------------------------------------------------------
\* Single-threaded specification with find calls run step by step
\* ------------------------------------------------------------------------

\* RawTrie::find up to the call of searching: the first key is looked up at
\* the root and its value pushed.
FindCall(k) ==
  /\ fpc = "idle"
  /\ ~panicked /\ ~hung
  /\ fkeys' = k
  /\ fspin' = 0
  /\ LET idx == IF k = <<>> THEN 0 ELSE Position(root, nodes, k[1])
     IN IF idx = 0
        THEN /\ fpc' = "done"
             /\ found' = NewFound
             /\ UNCHANGED <<fnode, findex>>
        ELSE /\ fpc' = "searching"
             /\ fnode' = root[idx]
             /\ findex' = 1
             /\ found' = PushVal(NewFound, nodes[root[idx]].val)
  /\ UNCHANGED <<fprev, trieVars, histVars, thrVars, memVars>>

\* One iteration of the while loop of RawTrie::searching.
SearchingLoop ==
  /\ fpc = "searching"
  /\ findex < Len(fkeys)
  /\ LET s == SearchingIter(nodes, fnode, fkeys, findex, found)
     IN /\ fnode' = s.node
        /\ findex' = s.index
        /\ found' = s.found
        /\ fspin' = IF s.index = findex /\ fspin < MaxSpin
                    THEN fspin + 1 ELSE fspin
  /\ UNCHANGED <<fpc, fkeys, fprev, trieVars, histVars, thrVars, memVars>>

\* The while loop of RawTrie::searching is left: recurse runs and find
\* returns the accumulator.
SearchingRecurse ==
  /\ fpc = "searching"
  /\ findex >= Len(fkeys)
  /\ found' = Recurse(nodes, fnode, found)
  /\ fpc' = "done"
  /\ UNCHANGED <<fkeys, fnode, findex, fspin, fprev, trieVars, histVars, thrVars,
               memVars>>

\* The caller drops the result.
FindReturn ==
  /\ fpc = "done"
  /\ fprev' = [keys |-> fkeys, collected |-> found.collected]
  /\ fpc' = "idle"
  /\ fkeys' = <<>>
  /\ fnode' = 0
  /\ findex' = 0
  /\ found' = NewFound
  /\ fspin' = 0
  /\ UNCHANGED <<trieVars, histVars, thrVars, memVars>>

FindAny == \E k \in Seqs : FindCall(k)

InsertIdle ==
  /\ fpc = "idle"
  /\ ninserts < MaxInsertsFind
  /\ \E vals \in Seqs : Insert(vals)
  /\ ninserts' = ninserts + 1
  /\ fprev' = NoPrev
  /\ UNCHANGED <<fpc, fkeys, fnode, findex, found, fspin, thrVars>>

NextFind ==
  \/ InsertIdle
  \/ FindAny
  \/ SearchingLoop
  \/ SearchingRecurse
  \/ FindReturn

SpecFind == Init /\ [][NextFind]_vars

\* No root slot holds a node with the value.
NoRoot(val) == \A i \in 1..Len(root) : root[i] = 0 \/ nodes[root[i]].val # val

\* The prefix is non-empty, its first element is at the root, and on the
\* path of the trie that matches it some later element has no child.
RECURSIVE Walk(_, _, _)
Walk(node, k, i) ==
  IF i > Len(k) THEN node
  ELSE LET cs == {c \in 1..Len(nodes) :
                    /\ \E j \in 1..ChildCap : nodes[node].children[j] = c
                    /\ nodes[c].val = k[i]}
       IN IF cs = {} THEN 0 ELSE Walk(Min(cs), k, i + 1)

Diverging(k) ==
  /\ k # <<>>
  /\ ~NoRoot(k[1])
  /\ Walk(root[Position(root, nodes, k[1])], k, 2) = 0

\* C8: a find call with the empty prefix, or with a prefix whose first
\* element is at no root node, returns with an empty collected list and
\* does not panic.
C8_EmptyQueries ==
  (fpc = "done" /\ (fkeys = <<>> \/ NoRoot(fkeys[1]))) =>
    found.collected = <<>> /\ ~panicked /\ ~hung

\* C8 witness: on a trie with two root nodes, a find call with a prefix of
\* two elements whose first element was never inserted has returned.
C8_Witness ==
  /\ fpc = "done"
  /\ Len(fkeys) = 2
  /\ NoRoot(fkeys[1])
  /\ len = 2

\* C10: on a diverging prefix the prefix walk stops at the first element
\* that has no matching child (no iteration is repeated), find returns, and
\* the result is empty.
C10_DivergingStops ==
  /\ fpc = "searching" => fspin = 0
  /\ (fpc = "done" /\ Diverging(fkeys)) => found.collected = <<>>

\* C11: a step of a find call changes neither the root array, len,
\* resize_flag nor any node (children, child_count, terminal); and a find
\* call that returns with the same prefix as the previous find call, with no
\* insert in between, returns an equal collected list.
C11_ReadOnly ==
  [][(fpc # "idle" \/ fpc' # "idle") =>
       /\ root' = root /\ len' = len /\ resize_flag' = resize_flag
       /\ nodes' = nodes
       /\ (fpc' = "done" /\ fkeys' = fprev.keys)
            => found'.collected = fprev.collected]_vars

\* C11 witness: a find call has returned two or more sequences and the find
\* call before it, with no insert in between, had the same prefix.
C11_Witness ==
  /\ fpc = "done"
  /\ fkeys # <<>>
  /\ fkeys = fprev.keys
  /\ Len(found.collected) >= 2

\* ------------------------------------------------------------------------
\* Single-threaded specification of root-array growth
\* ------------------------------------------------------------------------

\* Elements are only compared for equality, so the next new first element
\* is always taken to be len + 1.  After the first element comes nothing or
\* a tail over {1, 2}.
GrowTails == SeqsUpTo(1..2, 2)

Deep == {S \in inserted : Len(S) >= 2}

GrowSeqs ==
  {<<>>} \cup
  ({<<v>> \o t : v \in 1..(IF len < GrowRoots THEN len + 1 ELSE len),
                 t \in IF Cardinality(Deep) < MaxDeep THEN GrowTails ELSE {<<>>}}
     \ {<<v>> : v \in 1..len})

InsertGrow ==
  /\ \E vals \in GrowSeqs : Insert(vals)
  /\ UNCHANGED <<ninserts, findVars, thrVars>>

NextGrow == InsertGrow

SpecGrow == Init /\ [][NextGrow]_vars

\* The prefixes a caller would search for: those of the inserted sequences.
GrowProbes == UNION {Prefixes(S) : S \in inserted}

\* C7: every insert, those that grow the root array included, leaves each
\* root node at its index, keeps every sequence inserted earlier that
\* find(S) returned findable, changes no find result on a prefix with
\* another first element, and gives len() = number of distinct first
\* elements; the capacity stays or doubles.
C7_Growth ==
  [][/\ \A i \in 1..Len(root) : root[i] # 0 => root'[i] = root[i]
     /\ \A S \in inserted \ {<<>>} :
          S \in SeqToSet(Find(root, nodes, S).found.collected)
            => S \in SeqToSet(Find(root', nodes', S).found.collected)
     /\ \A p \in GrowProbes :
          (last' = <<>> \/ p[1] # last'[1])
            => Find(root', nodes', p) = Find(root, nodes, p)
     /\ len' = Cardinality({S[1] : S \in inserted' \ {<<>>}})
     /\ Len(root') \in {Len(root), 2 * Len(root)}
     /\ len' < Len(root')]_vars

\* C7 witness: the root array has grown twice, 26 distinct first elements
\* are in it and a sequence of three elements inserted before the first
\* growth is still found.
C7_Witness ==
  /\ Len(root) = 4 * RootInitCap
  /\ len = GrowRoots
  /\ \E S \in inserted :
       /\ Len(S) = 3 /\ S[1] < RootInitCap
       /\ S \in SeqToSet(FindNow(S).found.collected)

ConcWords == {<<1, 2>>, <<1, 3>>, <<2, 1>>}

\* Root entries present before the threads start: none, or so many that
\* the next new root entries reach the capacity boundary.
PrefillChoices == {0, RootInitCap - 2}

\* The k-th sequence inserted before the threads start: one element that is
\* not in the alphabet of the word list.
PrefillWord(k) == <<NumVals + k>>

\* The trie after insert(PrefillWord(1)), ..., insert(PrefillWord(k)) by one
\* thread.
RECURSIVE PrefillTrie(_)
PrefillTrie(k) ==
  IF k = 0
  THEN [root |-> [i \in 1..RootInitCap |-> 0], len |-> 0,
        resize_flag |-> FALSE, nodes |-> <<>>, panic |-> FALSE, hang |-> FALSE]
  ELSE LET p == PrefillTrie(k - 1)
       IN InsertSeq(p.root, p.len, p.resize_flag, p.nodes, PrefillWord(k))

InitConc ==
  /\ fprev = NoPrev
  /\ \E k \in PrefillChoices :
       /\ root = PrefillTrie(k).root
       /\ len = PrefillTrie(k).len
       /\ resize_flag = PrefillTrie(k).resize_flag
       /\ nodes = PrefillTrie(k).nodes
       /\ inserted = {PrefillWord(i) : i \in 1..k}
  /\ panicked = FALSE
  /\ hung = FALSE
  /\ last = <<>>
  /\ ninserts = 0
  /\ fpc = "idle"
  /\ fkeys = <<>>
  /\ fnode = 0
  /\ findex = 0
  /\ found = NewFound
  /\ fspin = 0
  /\ th = [t \in Threads |-> IdleThread]
  /\ todo = ConcWords
  /\ rgen = 0
  /\ uaf = FALSE

\* Thread t moves on with its locals changed to r.
Goto(t, r) == th' = [th EXCEPT ![t] = r]

\* Thread t panics: it unwinds out of insert and runs no further step.
Panic(t) ==
  /\ th' = [th EXCEPT ![t].pc = "panic"]
  /\ panicked' = TRUE

\* ParTrie::insert is called with a word of the list; insert_seq reads
\* self.len().
Call(t) ==
  /\ th[t].pc = "idle"
  /\ \E w \in todo :
       /\ todo' = todo \ {w}
       /\ inserted' = inserted \cup {w}
       /\ Goto(t, [IdleThread EXCEPT !.pc = "is_cap", !.vals = w, !.len = len])
  /\ UNCHANGED <<trieVars, last, ninserts, findVars, memVars>>

\* insert_seq: if len + 1 >= self.root.len()
IsCap(t) ==
  /\ th[t].pc = "is_cap"
  /\ Goto(t, [th[t] EXCEPT !.pc = IF th[t].len + 1 >= Len(root)
                                  THEN "is_flag" ELSE "is_first"])
  /\ UNCHANGED <<trieVars, histVars, findVars, todo,
               memVars>>

\* Mutant of IsFlag: every thread that meets the capacity test resizes,
\* whatever resize_flag was.
IsFlag_NoCas(t) ==
  /\ th[t].pc = "is_flag"
  /\ resize_flag' = TRUE
  /\ Goto(t, [th[t] EXCEPT !.pc = "rc_len"])
  /\ UNCHANGED <<root, len, nodes, panicked, hung, histVars, findVars, todo,
               memVars>>

\* insert_seq: resize_flag.compare_and_swap(false, true); the thread that
\* read false resizes, the others spin.
IsFlag(t) ==
  /\ th[t].pc = "is_flag"
  /\ resize_flag' = TRUE
  /\ Goto(t, [th[t] EXCEPT !.pc = IF resize_flag THEN "is_spin" ELSE "rc_len"])
  /\ UNCHANGED <<root, len, nodes, panicked, hung, histVars, findVars, todo,
               memVars>>

\* insert_seq: while self.resize_flag.load() { spin_loop_hint() }
IsSpin(t) ==
  /\ th[t].pc = "is_spin"
  /\ Goto(t, [th[t] EXCEPT !.pc = IF resize_flag THEN "is_spin" ELSE "is_first"])
  /\ UNCHANGED <<trieVars, histVars, findVars, todo,
               memVars>>

\* resize_check: let len = self.len()
RcLen(t) ==
  /\ th[t].pc = "rc_len"
  /\ Goto(t, [th[t] EXCEPT !.pc = "rc_cap", !.rlen = len])
  /\ UNCHANGED <<trieVars, histVars, findVars, todo,
               memVars>>

\* resize_check: if len + 1 < self.root.len() { return }
RcCap(t) ==
  /\ th[t].pc = "rc_cap"
  /\ Goto(t, [th[t] EXCEPT !.pc = IF th[t].rlen + 1 < Len(root)
                                  THEN "is_first" ELSE "rc_flag"])
  /\ UNCHANGED <<trieVars, histVars, findVars, todo,
               memVars>>

\* resize_check: if !self.resize_flag.load() { return }; then the new array
\* of twice the capacity is allocated, all slots null.
RcFlag(t) ==
  /\ th[t].pc = "rc_flag"
  /\ IF ~resize_flag
     THEN Goto(t, [th[t] EXCEPT !.pc = "is_first"])
     ELSE Goto(t, [th[t] EXCEPT !.pc = "rc_copy",
                                !.rroot = [i \in 1..(Len(root) * 2) |-> 0],
                                !.ridx = 0, !.new_count = 0])
  /\ UNCHANGED <<trieVars, histVars, findVars, todo,
               memVars>>

\* resize_check: one iteration of for idx in 0..len: load self.root[idx]
\* and CAS it into the null slot of the new array.
RcCopy(t) ==
  /\ th[t].pc = "rc_copy"
  /\ IF th[t].ridx >= th[t].rlen
     THEN Goto(t, [th[t] EXCEPT !.pc = "rc_install"]) /\ UNCHANGED panicked
     ELSE IF th[t].ridx + 1 > Len(root)
     THEN Panic(t)
     ELSE /\ Goto(t, [th[t] EXCEPT !.rroot[th[t].ridx + 1] = root[th[t].ridx + 1],
                                   !.ridx = @ + 1, !.new_count = @ + 1])
          /\ UNCHANGED panicked
  /\ UNCHANGED <<root, len, resize_flag, nodes, hung, histVars, findVars, todo,
               memVars>>

\* resize_check: mem::replace(&mut self.root, root).  The Box returned by
\* mem::replace, the old array, is dropped at the end of the statement.
RcInstall(t) ==
  /\ th[t].pc = "rc_install"
  /\ root' = th[t].rroot
  /\ rgen' = rgen + 1
  /\ Goto(t, [th[t] EXCEPT !.pc = "rc_lencas", !.rroot = <<>>])
  /\ UNCHANGED <<len, resize_flag, nodes, panicked, hung, histVars, findVars, todo,
               uaf>>

\* resize_check: assert!(self.len.compare_and_swap(len, new_count) == len)
RcLenCas(t) ==
  /\ th[t].pc = "rc_lencas"
  /\ IF len = th[t].rlen
     THEN /\ len' = th[t].new_count
          /\ Goto(t, [th[t] EXCEPT !.pc = "rc_unflag"])
          /\ UNCHANGED panicked
     ELSE /\ Panic(t)
          /\ UNCHANGED len
  /\ UNCHANGED <<root, resize_flag, nodes, hung, histVars, findVars, todo,
               memVars>>

\* resize_check: assert!(self.resize_flag.compare_and_swap(true, false))
RcUnflag(t) ==
  /\ th[t].pc = "rc_unflag"
  /\ IF resize_flag
     THEN /\ resize_flag' = FALSE
          /\ Goto(t, [th[t] EXCEPT !.pc = "is_first", !.rlen = 0, !.ridx = 0,
                                   !.new_count = 0])
          /\ UNCHANGED panicked
     ELSE /\ Panic(t)
          /\ UNCHANGED resize_flag
  /\ UNCHANGED <<root, len, nodes, hung, histVars, findVars, todo,
               memVars>>

\* The outcomes of position on a root array that was dropped while the
\* iterator was on it: None or any index of that array.  (A crash is the
\* further outcome, taken by IsPos.)
StalePositions(gen) == 0..(RootInitCap * (2 ^ gen))

\* insert_seq: vals.first(); position(first) takes self.root.iter(), an
\* iterator into the array that self.root points to at this moment.
IsFirst(t) ==
  /\ th[t].pc = "is_first"
  /\ IF th[t].vals = <<>>
     THEN Goto(t, IdleThread)
     ELSE Goto(t, [th[t] EXCEPT !.pc = "is_pos", !.rref = rgen])
  /\ UNCHANGED <<trieVars, histVars, findVars, todo, memVars>>

\* insert_seq: the scan of position over the array of the iterator; when no
\* root node matches, the new root node is allocated with
\* term = (len + 1) == vals.len().  A scan of a dropped array is undefined
\* behaviour: it crashes or yields any result.
IsPos(t) ==
  /\ th[t].pc = "is_pos"
  /\ uaf' = (uaf \/ th[t].rref # rgen)
  /\ \E pos \in IF th[t].rref = rgen
                THEN {Position(root, nodes, th[t].vals[1])}
                ELSE StalePositions(th[t].rref) \cup {-1} :
       LET term == (th[t].len + 1) = Len(th[t].vals)
       IN IF pos = -1
          THEN Panic(t) /\ UNCHANGED nodes
          ELSE IF pos # 0
          THEN /\ Goto(t, [th[t] EXCEPT !.pc = "is_load", !.pos = pos])
               /\ UNCHANGED <<nodes, panicked>>
          ELSE /\ nodes' = Append(nodes, NewNode(th[t].vals[1], term))
               /\ Goto(t, [th[t] EXCEPT !.pc = "pr_len",
                                        !.shared = Len(nodes) + 1])
               /\ UNCHANGED panicked
  /\ UNCHANGED <<root, len, resize_flag, hung, histVars, findVars, todo, rgen>>

\* insert_seq: self.root.get(idx), load; a null slot is a todo!().
IsLoad(t) ==
  /\ th[t].pc = "is_load"
  /\ IF th[t].pos > Len(root)
     THEN Goto(t, IdleThread) /\ UNCHANGED panicked
     ELSE IF root[th[t].pos] = 0
     THEN Panic(t)
     ELSE /\ Goto(t, [th[t] EXCEPT !.pc = "ir_loop", !.node = root[th[t].pos],
                                   !.idx = 1])
          /\ UNCHANGED panicked
  /\ UNCHANGED <<root, len, resize_flag, nodes, hung, histVars, findVars, todo,
               memVars>>

\* push_return: self.len()
PrLen(t) ==
  /\ th[t].pc = "pr_len"
  /\ Goto(t, [th[t] EXCEPT !.pc = "pr_get", !.plen = len])
  /\ UNCHANGED <<trieVars, histVars, findVars, todo, memVars>>

\* push_return: self.root.get(len): None => continue; Some(n) is a
\* reference to a slot of the array that self.root points to at this moment.
PrGet(t) ==
  /\ th[t].pc = "pr_get"
  /\ IF th[t].plen + 1 > Len(root)
     THEN Goto(t, [th[t] EXCEPT !.pc = "pr_len"])
     ELSE Goto(t, [th[t] EXCEPT !.pc = "pr_cas", !.rref = rgen])
  /\ UNCHANGED <<trieVars, histVars, findVars, todo, memVars>>

\* push_return: n.compare_and_set(null, val).  Err(_) becomes node = None
\* through .ok().  A CAS on a slot of a dropped array is undefined
\* behaviour: it succeeds or fails on memory that is no longer the trie's,
\* or crashes.
PrCas(t) ==
  /\ th[t].pc = "pr_cas"
  /\ uaf' = (uaf \/ th[t].rref # rgen)
  /\ IF th[t].rref = rgen
     THEN /\ IF root[th[t].plen + 1] = 0
             THEN /\ root' = [root EXCEPT ![th[t].plen + 1] = th[t].shared]
                  /\ Goto(t, [th[t] EXCEPT !.pc = "pr_inc"])
             ELSE /\ Goto(t, [th[t] EXCEPT !.pc = "ir_loop", !.node = 0,
                                           !.idx = 1])
                  /\ UNCHANGED root
          /\ UNCHANGED panicked
     ELSE /\ UNCHANGED root
          /\ \/ Goto(t, [th[t] EXCEPT !.pc = "pr_inc"]) /\ UNCHANGED panicked
             \/ /\ Goto(t, [th[t] EXCEPT !.pc = "ir_loop", !.node = 0, !.idx = 1])
                /\ UNCHANGED panicked
             \/ Panic(t)
  /\ UNCHANGED <<len, resize_flag, nodes, hung, histVars, findVars, todo, rgen>>

\* push_return: self.len.fetch_add(1) and Ok(n.load()): the slot claimed
\* by this thread holds its node.  A load from a dropped array is undefined
\* behaviour: it yields the node it held or crashes.
PrInc(t) ==
  /\ th[t].pc = "pr_inc"
  /\ len' = len + 1
  /\ uaf' = (uaf \/ th[t].rref # rgen)
  /\ IF th[t].rref = rgen
     THEN /\ Goto(t, [th[t] EXCEPT !.pc = "ir_loop",
                                   !.node = root[th[t].plen + 1], !.idx = 1])
          /\ UNCHANGED panicked
     ELSE \/ /\ Goto(t, [th[t] EXCEPT !.pc = "ir_loop", !.node = th[t].shared,
                                      !.idx = 1])
             /\ UNCHANGED panicked
          \/ Panic(t)
  /\ UNCHANGED <<root, resize_flag, nodes, hung, histVars, findVars, todo, rgen>>

\* insert_rest: while let Some(next) = vals.get(idx) { if let Some(prev) =
\* node { idx += 1; ... add_child } }.  With node = None and an element
\* left the loop never ends.
IrLoop(t) ==
  /\ th[t].pc = "ir_loop"
  /\ IF th[t].idx >= Len(th[t].vals)
     THEN Goto(t, IdleThread) /\ UNCHANGED hung
     ELSE IF th[t].node = 0
     THEN UNCHANGED th /\ hung' = TRUE
     ELSE Goto(t, [th[t] EXCEPT !.pc = "ac_len", !.idx = @ + 1]) /\ UNCHANGED hung
  /\ UNCHANGED <<root, len, resize_flag, nodes, panicked, histVars, findVars, todo,
               memVars>>

\* add_child: let len = self.child_len(); a full array is a todo!().
AcLen(t) ==
  /\ th[t].pc = "ac_len"
  /\ IF ChildLen(nodes, th[t].node) >= ChildCap
     THEN Panic(t)
     ELSE /\ Goto(t, [th[t] EXCEPT !.pc = "ac_pos",
                                   !.clen = ChildLen(nodes, th[t].node)])
          /\ UNCHANGED panicked
  /\ UNCHANGED <<root, len, resize_flag, nodes, hung, histVars, findVars, todo,
               memVars>>

\* add_child: child_position; a match returns the loaded child, otherwise
\* the new node is moved to the heap (Owned::from).
AcPos(t) ==
  /\ th[t].pc = "ac_pos"
  /\ LET val == th[t].vals[th[t].idx]
         term == th[t].idx = Len(th[t].vals)
         c == FindNode(nodes, th[t].node, val)
     IN IF c # 0
        THEN /\ Goto(t, [th[t] EXCEPT !.pc = "ir_loop", !.node = c])
             /\ UNCHANGED nodes
        ELSE /\ nodes' = Append(nodes, NewNode(val, term))
             /\ Goto(t, [th[t] EXCEPT !.pc = "ac_cas", !.shared = Len(nodes) + 1])
  /\ UNCHANGED <<root, len, resize_flag, panicked, hung, histVars, findVars, todo,
               memVars>>

\* Mutant of AcCas: the result of compare_and_set is not asserted; after a
\* failed CAS the thread goes on to count its child.
AcCas_NoAssert(t) ==
  /\ th[t].pc = "ac_cas"
  /\ nodes' = IF nodes[th[t].node].children[th[t].clen + 1] = 0
              THEN [nodes EXCEPT ![th[t].node].children[th[t].clen + 1] =
                                   th[t].shared]
              ELSE nodes
  /\ Goto(t, [th[t] EXCEPT !.pc = "ac_inc"])
  /\ UNCHANGED <<root, len, resize_flag, panicked, hung, histVars, findVars,
               todo, memVars>>

\* add_child: assert!(children[len].compare_and_set(null, new).is_ok())
AcCas(t) ==
  /\ th[t].pc = "ac_cas"
  /\ IF nodes[th[t].node].children[th[t].clen + 1] = 0
     THEN /\ nodes' = [nodes EXCEPT ![th[t].node].children[th[t].clen + 1] =
                                      th[t].shared]
          /\ Goto(t, [th[t] EXCEPT !.pc = "ac_inc"])
          /\ UNCHANGED panicked
     ELSE /\ Panic(t)
          /\ UNCHANGED nodes
  /\ UNCHANGED <<root, len, resize_flag, hung, histVars, findVars, todo,
               memVars>>

\* Mutant of AcInc: the update of child_count also clears the terminal flag
\* of the node.
AcInc_Clear(t) ==
  /\ th[t].pc = "ac_inc"
  /\ nodes' = [nodes EXCEPT ![th[t].node].child_count = @ + 1,
                            ![th[t].node].terminal = FALSE]
  /\ IF ChildLen(nodes, th[t].node) = th[t].clen
     THEN Goto(t, [th[t] EXCEPT !.pc = "ac_last"]) /\ UNCHANGED panicked
     ELSE Panic(t)
  /\ UNCHANGED <<root, len, resize_flag, hung, histVars, findVars, todo,
               memVars>>

\* add_child: assert!(self.child_count.fetch_add(1) == len)
AcInc(t) ==
  /\ th[t].pc = "ac_inc"
  /\ nodes' = [nodes EXCEPT ![th[t].node].child_count = @ + 1]
  /\ IF ChildLen(nodes, th[t].node) = th[t].clen
     THEN Goto(t, [th[t] EXCEPT !.pc = "ac_last"]) /\ UNCHANGED panicked
     ELSE Panic(t)
  /\ UNCHANGED <<root, len, resize_flag, hung, histVars, findVars, todo,
               memVars>>

\* add_child: self.last_child(), the slot at child_len() - 1.
AcLast(t) ==
  /\ th[t].pc = "ac_last"
  /\ Goto(t, [th[t] EXCEPT !.pc = "ir_loop", !.node = LastChild(nodes, th[t].node)])
  /\ UNCHANGED <<trieVars, histVars, findVars, todo,
               memVars>>

NextConc ==
  \E t \in Threads :
    \/ Call(t)
    \/ IsCap(t)
    \/ IsFlag(t)
    \/ IsSpin(t)
    \/ RcLen(t)
    \/ RcCap(t)
    \/ RcFlag(t)
    \/ RcCopy(t)
    \/ RcInstall(t)
    \/ RcLenCas(t)
    \/ RcUnflag(t)
    \/ IsFirst(t)
    \/ IsPos(t)
    \/ IsLoad(t)
    \/ PrLen(t)
    \/ PrGet(t)
    \/ PrCas(t)
    \/ PrInc(t)
    \/ IrLoop(t)
    \/ AcLen(t)
    \/ AcPos(t)
    \/ AcCas(t)
    \/ AcInc(t)
    \/ AcLast(t)

SpecConc == InitConc /\ [][NextConc]_vars

\* No insert call is in progress and every word of the list was inserted.
Quiescent == todo = {} /\ \A t \in Threads : th[t].pc = "idle"

\* C5: no insert call of the threads panics, every call returns, and when
\* all have returned find(w) contains w for every word w of the list.
C5_ConcurrentInsert ==
  /\ ~panicked
  /\ ~hung
  /\ Quiescent => \A w \in ConcWords : ~FindNow(w).hang /\ w \in Collected(w)

\* C6: the root array never holds two nodes with the same value, and when
\* all calls have returned len is the number of distinct first elements.
C6_RootUnique ==
  /\ \A i, j \in 1..Len(root) :
       (i # j /\ root[i] # 0 /\ root[j] # 0)
         => nodes[root[i]].val # nodes[root[j]].val
  /\ Quiescent => len = Cardinality(FirstElements)

\* C12: a thread whose compare_and_set on a root slot failed does not leave
\* push_return without a node: when insert_rest starts after push_return,
\* the thread's new root node is in a slot of the root array, and no call is
\* stuck in a loop.
C12_CasRetry ==
  /\ ~hung
  /\ \A t \in Threads :
       (th[t].pc = "ir_loop" /\ th[t].idx = 1 /\ th[t].shared # 0 /\ ~uaf) =>
         /\ th[t].node = th[t].shared
         /\ \E i \in 1..Len(root) : root[i] = th[t].shared

\* Thread t is inside resize_check.
InResize(t) ==
  th[t].pc \in {"rc_len", "rc_cap", "rc_flag", "rc_copy", "rc_install",
                "rc_lencas", "rc_unflag"}

\* Thread t is in the copy-and-install part of resize_check (from the
\* allocation of the new array to the reset of resize_flag).
InCopyInstall(t) ==
  th[t].pc \in {"rc_copy", "rc_install", "rc_lencas", "rc_unflag"}

\* C13: resize_flag is true only while some thread is inside resize_check
\* (which resets it on its way out), so that no thread spins on it for ever.
C13_FlagReset ==
  resize_flag => \E t \in Threads : InResize(t)

\* C14: at most one thread at a time is in the copy-and-install part of
\* resize_check, and while one is there resize_flag is true.
C14_ResizeMutex ==
  /\ Cardinality({t \in Threads : InCopyInstall(t)}) <= 1
  /\ (\E t \in Threads : InCopyInstall(t)) => resize_flag

\* C14 witness: one thread is about to install the new root array while
\* another thread, which also met the capacity test, spins on resize_flag.
C14_Witness ==
  \E t, u \in Threads :
    /\ th[t].pc = "rc_install"
    /\ th[u].pc = "is_spin"
    /\ Len(th[t].rroot) = 2 * RootInitCap

\* C15: no thread reads or CASes a slot of a root array that resize_check
\* has replaced and dropped.
C15_NoUseAfterFree == ~uaf

\* C19: a node whose terminal flag is true stays in the heap with the flag
\* true in every later state, whatever the threads do (insert steps, root
\* array growth included).
C19_TerminalMonotone ==
  [][\A p \in 1..Len(nodes) :
       IsTerminal(nodes, p) => (p <= Len(nodes') /\ IsTerminal(nodes', p))]_vars

\* C19 witness: the threads have inserted all words and returned, the root
\* array has grown meanwhile, and both the terminal root node created before
\* the threads started and a terminal node created by them are terminal.
C19_Witness ==
  /\ rgen = 1
  /\ Quiescent
  /\ ~uaf /\ ~panicked /\ ~hung
  /\ IsTerminal(nodes, 1)
  /\ \E p \in (RootInitCap - 1)..Len(nodes) : IsTerminal(nodes, p)

\* ------------------------------------------------------------------------
\* Single-threaded specification of nodes that fill their child slots
\* ------------------------------------------------------------------------

\* The number of children of the root node with value r, 0 without one.
ChildrenOf(r) ==
  IF Position(root, nodes, r) = 0 THEN 0
  ELSE ChildLen(nodes, root[Position(root, nodes, r)])

\* Elements are only compared for equality, so the next new child of the
\* root node 1 is always taken to be its child count + 1: the sequences are
\* <<>>, <<1>> and <<1, v>> with v an existing child or the next new one
\* (one more than the node has slots included).
ChildSeqs ==
  {<<>>, <<1>>} \cup {<<1, v>> : v \in 1..(ChildrenOf(1) + 1)}

InsertChild ==
  /\ \E vals \in ChildSeqs : Insert(vals)
  /\ UNCHANGED <<ninserts, findVars, thrVars>>

NextChild == InsertChild

SpecChild == Init /\ [][NextChild]_vars

\* C20: add_child with the value of an existing child returns that child,
\* without a panic, and changes no child slot and no child_count, also on a
\* node whose child slots are all taken.
C20_AddChildExisting ==
  \A p \in 1..Len(nodes) : \A v \in 1..(ChildCap + 1) :
    ChildPosition(nodes, p, v) # 0 =>
      /\ ~AddChild(nodes, p, v, TRUE).panic
      /\ AddChild(nodes, p, v, TRUE).ret = FindNode(nodes, p, v)
      /\ AddChild(nodes, p, v, TRUE).nodes = nodes

\* C21: add_child with a value that is not yet a child, on a node whose
\* child slots are all taken, panics and leaves the heap as it was; the
\* insert that made the call aborts with the trie unchanged.
C21_CapacityExhaustion ==
  /\ \A p \in 1..Len(nodes) : \A v \in 1..(ChildCap + 1) :
       (ChildLen(nodes, p) = ChildCap /\ ChildPosition(nodes, p, v) = 0) =>
         /\ AddChild(nodes, p, v, TRUE).panic
         /\ AddChild(nodes, p, v, TRUE).nodes = nodes
  /\ (last = <<1, ChildCap + 1>>) =>
       /\ panicked
       /\ ChildrenOf(1) = ChildCap
       /\ Len(nodes) = ChildCap + 1
       /\ PathNode(last) = 0

\* C21 witness: the insert of a fourteenth child below the root node 1 has
\* been called.
C21_Witness ==
  /\ last = <<1, ChildCap + 1>>
  /\ \A v \in 1..ChildCap : <<1, v>> \in inserted

\* The number of non-null child slots of node p.
NonNullChildren(p) ==
  Cardinality({i \in 1..ChildCap : nodes[p].children[i] # 0})

\* The threads between the compare_and_set and the fetch_add of an
\* add_child on node p.
Adding(p) == {t \in Threads : th[t].pc = "ac_inc" /\ th[t].node = p}

\* C22: under every interleaving each node's child_count is at most 13, its
\* non-null child slots are a contiguous prefix of the array, and
\* child_count is the number of non-null slots less the add_child calls on
\* the node that have claimed a slot and not yet counted it (so it equals
\* that number when no add_child on the node is in flight).
C22_ChildCount ==
  \A p \in 1..Len(nodes) :
    /\ ChildLen(nodes, p) <= ChildCap
    /\ \A i \in 1..ChildCap :
         nodes[p].children[i] # 0 <=> i <= NonNullChildren(p)
    /\ ChildLen(nodes, p) = NonNullChildren(p) - Cardinality(Adding(p))

\* C22 witness: both threads have added a child to the same node and have
\* returned from insert.
C22_Witness ==
  /\ \A t \in Threads : th[t].pc = "idle"
  /\ ~panicked /\ ~hung /\ ~uaf
  /\ \E p \in 1..Len(nodes) :
       ChildLen(nodes, p) = 2 /\ NonNullChildren(p) = 2

\* C23: a node that is in a root slot or in a child slot stays there: after
\* every step it is in some slot of the current root array, respectively
\* in the same child slot of the same parent.
C23_NoRetract ==
  [][/\ \A i \in 1..Len(root) :
          root[i] # 0 => \E j \in 1..Len(root') : root'[j] = root[i]
     /\ \A p \in 1..Len(nodes) : \A i \in 1..ChildCap :
          nodes[p].children[i] # 0
            => nodes'[p].children[i] = nodes[p].children[i]]_vars

\* C24: no assertion of add_child fails: a thread at the compare_and_set
\* or at the fetch_add of add_child does not panic there.
C24_ConcurrentAddChild ==
  [][\A t \in Threads :
       (th[t].pc \in {"ac_cas", "ac_inc"} /\ ~uaf) => th'[t].pc # "panic"]_vars

\* C25: the node that add_child returns to insert_rest has the value of the
\* element the caller passed in.
C25_OwnChild ==
  \A t \in Threads :
    (th[t].pc = "ir_loop" /\ th[t].idx >= 2 /\ th[t].node # 0)
      => nodes[th[t].node].val = th[t].vals[th[t].idx]

\* The number of non-null entries of the root array.
NonNullRoots == Cardinality({i \in 1..Len(root) : root[i] # 0})

\* C28: whenever no insert and no resize is in flight (every thread has
\* returned from insert or has unwound from it) and no thread has touched a
\* dropped array, len is the number of non-null entries of the root array.
C28_QuiescentLen ==
  ((\A t \in Threads : th[t].pc \in {"idle", "panic"}) /\ ~uaf)
    => len = NonNullRoots

\* C30: neither assertion at the end of resize_check fails: a thread at the
\* compare_and_swap of len or of resize_flag does not panic there.
C30_ResizeAsserts ==
  [][\A t \in Threads :
       (th[t].pc \in {"rc_lencas", "rc_unflag"}) => th'[t].pc # "panic"]_vars

\* ------------------------------------------------------------------------
\* Concurrent specification of three spawned threads, each with its own words
\* ------------------------------------------------------------------------

RaceThreads == 1..(NumThreads + 1)

\* The words of each thread, in the order in which it inserts them.  The
\* trie holds 11 root entries when the threads start: the first word of
\* thread 1 brings it to the capacity boundary and its second call grows the
\* root array.
RaceWords == <<(<< <<3>>, <<>> >>), (<< <<1>> >>), (<< <<1, 2>> >>)>>

\* The calls not yet made: <<t, k>> is the k-th word of thread t.
RaceCalls == {<<t, k>> : t \in RaceThreads, k \in 1..2} \cap
             {c \in RaceThreads \X (1..2) : c[2] <= Len(RaceWords[c[1]])}

InitRace ==
  /\ fprev = NoPrev
  /\ root = PrefillTrie(RootInitCap - 2).root
  /\ len = PrefillTrie(RootInitCap - 2).len
  /\ resize_flag = PrefillTrie(RootInitCap - 2).resize_flag
  /\ nodes = PrefillTrie(RootInitCap - 2).nodes
  /\ inserted = {PrefillWord(i) : i \in 1..(RootInitCap - 2)}
  /\ panicked = FALSE
  /\ hung = FALSE
  /\ last = <<>>
  /\ ninserts = 0
  /\ fpc = "idle"
  /\ fkeys = <<>>
  /\ fnode = 0
  /\ findex = 0
  /\ found = NewFound
  /\ fspin = 0
  /\ th = [t \in RaceThreads |-> IdleThread]
  /\ todo = RaceCalls
  /\ rgen = 0
  /\ uaf = FALSE

\* ParTrie::insert is called by thread t with its next word; insert_seq
\* reads self.len().
CallOwn(t) ==
  /\ th[t].pc = "idle"
  /\ \E c \in todo :
       /\ c[1] = t
       /\ \A d \in todo : d[1] = t => c[2] <= d[2]
       /\ todo' = todo \ {c}
       /\ inserted' = inserted \cup {RaceWords[t][c[2]]}
       /\ Goto(t, [IdleThread EXCEPT !.pc = "is_cap",
                                     !.vals = RaceWords[t][c[2]], !.len = len])
  /\ UNCHANGED <<trieVars, last, ninserts, findVars, memVars>>

NextRace ==
  \E t \in RaceThreads :
    \/ CallOwn(t)
    \/ IsCap(t)
    \/ IsFlag(t)
    \/ IsSpin(t)
    \/ RcLen(t)
    \/ RcCap(t)
    \/ RcFlag(t)
    \/ RcCopy(t)
    \/ RcInstall(t)
    \/ RcLenCas(t)
    \/ RcUnflag(t)
    \/ IsFirst(t)
    \/ IsPos(t)
    \/ IsLoad(t)
    \/ PrLen(t)
    \/ PrGet(t)
    \/ PrCas(t)
    \/ PrInc(t)
    \/ IrLoop(t)
    \/ AcLen(t)
    \/ AcPos(t)
    \/ AcCas(t)
    \/ AcInc(t)
    \/ AcLast(t)

SpecRace == InitRace /\ [][NextRace]_vars

\* C29: the load of the root slot that position has matched yields a node:
\* a thread at that load (the position was found on the live root array)
\* does not run into the todo!() of the null branch.
C29_NoNullAfterLookup ==
  [][\A t \in RaceThreads :
       (th[t].pc = "is_load" /\ ~uaf) => th'[t].pc # "panic"]_vars

\* ------------------------------------------------------------------------
\* Root capacity (single-threaded)
\* ------------------------------------------------------------------------

\* The capacities 13 * 2^k the root array takes up to GrowRoots entries.
RootCaps == {RootInitCap, 2 * RootInitCap, 4 * RootInitCap}

\* C31: single-threaded, the capacity of the root array is 13 * 2^k; an
\* insert doubles it exactly when it starts with len + 1 >= capacity and
\* leaves it alone otherwise; len < capacity and the slot at index len is
\* free whenever an insert starts, and an insert whose first element has no
\* root node puts its node into the slot at index len (of the array after
\* the growth, if any) at the first attempt: len grows by one and the
\* insert does not loop in push_return.
C31_CapacityDiscipline ==
  [][/\ Len(root) \in RootCaps
     /\ Len(root') \in RootCaps
     /\ len < Len(root)
     /\ root[len + 1] = 0
     /\ IF len + 1 >= Len(root)
        THEN Len(root') = 2 * Len(root)
        ELSE Len(root') = Len(root)
     /\ len' < Len(root')
     /\ (last' # <<>> /\ Position(root, nodes, last'[1]) = 0)
          => /\ len' = len + 1
             /\ root'[len + 1] = Len(nodes) + 1
             /\ nodes'[root'[len + 1]].val = last'[1]
             /\ root'[len' + 1] = 0
             /\ ~hung']_vars

\* C31 witness: the insert of the 26th first element met len + 1 = 26 =
\* capacity: the array has doubled a second time and the node is in the slot
\* at index 25.
C31_Witness ==
  /\ Len(root) = 4 * RootInitCap
  /\ len = 2 * RootInitCap
  /\ last # <<>> /\ last[1] = 2 * RootInitCap
  /\ root[2 * RootInitCap] # 0
  /\ nodes[root[2 * RootInitCap]].val = last[1]
  /\ ~hung /\ ~panicked

\* ------------------------------------------------------------------------
\* Concurrent specification of a reader beside two inserting threads
\* ------------------------------------------------------------------------

\* The thread that calls find.
Reader == NumThreads + 1

StallThreads == Threads \cup {Reader}

\* The words the two inserting threads take, one each: both start with the
\* same element, which is not yet at the root.
StallWords == {<<2>>, <<2, 1>>}

\* The prefixes the reader searches for: one that is in the trie from the
\* start and the two that the inserting threads bring.
StallKeys == {PrefillWord(1), <<2>>, <<2, 1>>}

\* The trie the threads start on: 12 root entries of one element each,
\* inserted by one thread.  len + 1 is then the capacity, so that the next
\* insert call sets resize_flag.
StallTrie == PrefillTrie(RootInitCap - 1)

InitStall ==
  /\ fprev = NoPrev
  /\ root = StallTrie.root
  /\ len = StallTrie.len
  /\ resize_flag = StallTrie.resize_flag
  /\ nodes = StallTrie.nodes
  /\ inserted = {PrefillWord(i) : i \in 1..(RootInitCap - 1)}
  /\ panicked = FALSE
  /\ hung = FALSE
  /\ last = <<>>
  /\ ninserts = 0
  /\ fpc = "idle"
  /\ fkeys = <<>>
  /\ fnode = 0
  /\ findex = 0
  /\ found = NewFound
  /\ fspin = 0
  /\ th = [t \in StallThreads |-> IdleThread]
  /\ todo = StallWords
  /\ rgen = 0
  /\ uaf = FALSE

\* ParTrie::find is called by thread t with the prefix k: Found::new() and
\* keys.first(); position(key) takes self.root.iter(), an iterator into the
\* array that self.root points to at this moment.
FindFirst(t, k) ==
  /\ th[t].pc = "idle"
  /\ found' = NewFound
  /\ IF k = <<>>
     THEN Goto(t, [IdleThread EXCEPT !.pc = "f_done"])
     ELSE Goto(t, [IdleThread EXCEPT !.pc = "f_pos", !.vals = k, !.rref = rgen])
  /\ UNCHANGED <<trieVars, histVars, fpc, fkeys, fnode, findex, fspin, fprev,
               todo, memVars>>

\* find: the scan of position over the array of the iterator.  A scan of a
\* dropped array is undefined behaviour: it crashes or yields any result.
FindPosition(t) ==
  /\ th[t].pc = "f_pos"
  /\ uaf' = (uaf \/ th[t].rref # rgen)
  /\ \E pos \in IF th[t].rref = rgen
                THEN {Position(root, nodes, th[t].vals[1])}
                ELSE StalePositions(th[t].rref) \cup {-1} :
       IF pos = -1
       THEN Panic(t)
       ELSE /\ Goto(t, [th[t] EXCEPT !.pc = IF pos = 0 THEN "f_done"
                                            ELSE "f_load",
                                     !.pos = pos])
            /\ UNCHANGED panicked
  /\ UNCHANGED <<root, len, resize_flag, nodes, hung, histVars, findVars, todo,
               rgen>>

\* find: self.root[idx].load(); a null slot is a todo!(), an index past the
\* array a panic of the slice index; then found.push_val(node.to_value()).
FindLoad(t) ==
  /\ th[t].pc = "f_load"
  /\ IF th[t].pos > Len(root) \/ root[th[t].pos] = 0
     THEN Panic(t) /\ UNCHANGED found
     ELSE /\ Goto(t, [th[t] EXCEPT !.pc = "f_search",
                                   !.node = root[th[t].pos], !.idx = 1])
          /\ found' = PushVal(found, nodes[root[th[t].pos]].val)
          /\ UNCHANGED panicked
  /\ UNCHANGED <<root, len, resize_flag, nodes, hung, histVars, fpc, fkeys,
               fnode, findex, fspin, fprev, todo, memVars>>

\* Mutant of SearchingWhile: the loop goes on only while resize_flag is
\* false.
SearchingWhile_Flag(t) ==
  /\ th[t].pc = "f_search"
  /\ th[t].idx < Len(th[t].vals)
  /\ ~resize_flag
  /\ LET s == SearchingIter(nodes, th[t].node, th[t].vals, th[t].idx, found)
     IN /\ Goto(t, [th[t] EXCEPT !.node = s.node, !.idx = s.index])
        /\ found' = s.found
  /\ UNCHANGED <<trieVars, histVars, fpc, fkeys, fnode, findex, fspin, fprev,
               todo, memVars>>

\* One iteration of the while loop of RawTrie::searching by thread t.
SearchingWhile(t) ==
  /\ th[t].pc = "f_search"
  /\ th[t].idx < Len(th[t].vals)
  /\ LET s == SearchingIter(nodes, th[t].node, th[t].vals, th[t].idx, found)
     IN /\ Goto(t, [th[t] EXCEPT !.node = s.node, !.idx = s.index])
        /\ found' = s.found
  /\ UNCHANGED <<trieVars, histVars, fpc, fkeys, fnode, findex, fspin, fprev,
               todo, memVars>>

\* The while loop of RawTrie::searching is left: recurse runs and find
\* returns the accumulator.
SearchingEnd(t) ==
  /\ th[t].pc = "f_search"
  /\ th[t].idx >= Len(th[t].vals)
  /\ found' = Recurse(nodes, th[t].node, found)
  /\ Goto(t, [th[t] EXCEPT !.pc = "f_done"])
  /\ UNCHANGED <<trieVars, histVars, fpc, fkeys, fnode, findex, fspin, fprev,
               todo, memVars>>

\* The caller of find drops the result.
FindDrop(t) ==
  /\ th[t].pc = "f_done"
  /\ found' = NewFound
  /\ Goto(t, IdleThread)
  /\ UNCHANGED <<trieVars, histVars, fpc, fkeys, fnode, findex, fspin, fprev,
               todo, memVars>>

\* The steps of a find call after the call itself.
FindStep(t) ==
  \/ FindPosition(t)
  \/ FindLoad(t)
  \/ SearchingWhile(t)
  \/ SearchingEnd(t)

NextStall ==
  \/ \E k \in StallKeys : FindFirst(Reader, k)
  \/ FindPosition(Reader)
  \/ FindLoad(Reader)
  \/ SearchingWhile(Reader)
  \/ SearchingEnd(Reader)
  \/ FindDrop(Reader)
  \/ \E t \in Threads :
       \/ Call(t)
       \/ IsCap(t)
       \/ IsFlag(t)
       \/ IsSpin(t)
       \/ RcLen(t)
       \/ RcCap(t)
       \/ RcFlag(t)
       \/ RcCopy(t)
       \/ RcInstall(t)
       \/ RcLenCas(t)
       \/ RcUnflag(t)
       \/ IsFirst(t)
       \/ IsPos(t)
       \/ IsLoad(t)
       \/ PrLen(t)
       \/ PrGet(t)
       \/ PrCas(t)
       \/ PrInc(t)
       \/ IrLoop(t)
       \/ AcLen(t)
       \/ AcPos(t)
       \/ AcCas(t)
       \/ AcInc(t)
       \/ AcLast(t)

\* The reader is scheduled as long as it has a step to take; nothing is
\* assumed about the inserting threads: the thread that resizes may stop at
\* any step and a spinning thread may spin for ever.
SpecStall == InitStall /\ [][NextStall]_vars /\ WF_vars(FindStep(Reader))

\* The sequence k is on a path of the trie: some root slot holds a node with
\* k[1] below which a chain of children carries k[2], k[3], ...
RECURSIVE PathBelow(_, _, _)
PathBelow(node, k, i) ==
  IF i > Len(k) THEN TRUE
  ELSE \E j \in 1..ChildCap :
         /\ nodes[node].children[j] # 0
         /\ nodes[nodes[node].children[j]].val = k[i]
         /\ PathBelow(nodes[node].children[j], k, i + 1)

Present(k) ==
  /\ k # <<>>
  /\ \E i \in 1..Len(root) :
       root[i] # 0 /\ nodes[root[i]].val = k[1] /\ PathBelow(root[i], k, 2)

\* The thread is inside find.
InFind(t) == th[t].pc \in {"f_pos", "f_load", "f_search"}

\* The elements k[i..] are on the path that searching walks from node: at
\* each node the first child with the next element.
RECURSIVE OnWalk(_, _, _)
OnWalk(node, k, i) ==
  IF i > Len(k) THEN TRUE
  ELSE /\ FindNode(nodes, node, k[i]) # 0
       /\ OnWalk(FindNode(nodes, node, k[i]), k, i + 1)

\* Holds in SpecStall: a reader in searching whose remaining elements are
\* on the path it walks reaches the end of find, also while resize_flag
\* stays true and a thread spins on it (StalledFind is reachable).
FindOnWalkedPath ==
  (th[Reader].pc = "f_search"
     /\ OnWalk(th[Reader].node, th[Reader].vals, th[Reader].idx + 1))
    ~> (th[Reader].pc = "f_done")

StalledFind ==
  /\ th[Reader].pc = "f_done"
  /\ found.collected # <<>>
  /\ resize_flag
  /\ \E t \in Threads : th[t].pc = "is_spin"

\* C32: a find call for a prefix that is on a path of the trie returns
\* after finitely many steps of the reader, whatever the inserting threads
\* do: resize_flag may stay true for ever and threads may spin on it.  (A
\* call that panics, or one made while a dropped array is in use, is not
\* held against the property.)
C32_ReadersNeverWait ==
  (InFind(Reader) /\ Present(th[Reader].vals))
    ~> (th[Reader].pc \in {"f_done", "panic"} \/ uaf)

\* C33: as long as no thread has touched a dropped array, the non-null
\* slots of the root array are the first k slots for some k with
\* len <= k <= len + 1.
C33_RootPrefix ==
  ~uaf =>
    /\ \A i \in 1..Len(root) : root[i] # 0 <=> i <= NonNullRoots
    /\ len <= NonNullRoots
    /\ NonNullRoots <= len + 1

\* ------------------------------------------------------------------------
\* Tagged pointers (src/src/pointers.rs)
\* ------------------------------------------------------------------------

\* The values of a usize.
Words == 0..(2 ^ WordBits - 1)

\* The alignments mem::align_of::<T>() of the types T taken into account.
Aligns == {1, 2, 4, 8}

\* The operators &, | and ! of usize, bit by bit.
RECURSIVE BitAnd(_, _, _)
BitAnd(x, y, n) ==
  IF n = 0 THEN 0
  ELSE (x % 2) * (y % 2) + 2 * BitAnd(x \div 2, y \div 2, n - 1)

RECURSIVE BitOr(_, _, _)
BitOr(x, y, n) ==
  IF n = 0 THEN 0
  ELSE (IF x % 2 = 1 \/ y % 2 = 1 THEN 1 ELSE 0)
         + 2 * BitOr(x \div 2, y \div 2, n - 1)

BitNot(x) == (2 ^ WordBits - 1) - x

\* usize::trailing_zeros of a non-zero value
RECURSIVE TrailingZeros(_)
TrailingZeros(a) == IF a % 2 = 1 THEN 0 ELSE 1 + TrailingZeros(a \div 2)

\* low_bits::<T>(): (1 << align_of::<T>().trailing_zeros()) - 1
LowBits(a) == ((2 ^ TrailingZeros(a)) % (2 ^ WordBits)) - 1

\* Mutant of DataWithTag: the tag is not masked.
DataWithTag_NoMask(a, data, tag) ==
  BitOr(BitAnd(data, BitNot(LowBits(a)), WordBits), tag, WordBits)

\* data_with_tag::<T>(data, tag): (data & !low_bits) | (tag & low_bits)
DataWithTag(a, data, tag) ==
  BitOr(BitAnd(data, BitNot(LowBits(a)), WordBits),
        BitAnd(tag, LowBits(a), WordBits), WordBits)

\* decompose_data::<T>(data): (data & !low_bits, data & low_bits)
DecomposeData(a, data) ==
  [raw |-> BitAnd(data, BitNot(LowBits(a)), WordBits),
   tag |-> BitAnd(data, LowBits(a), WordBits)]

\* Shared::as_raw
AsRaw(a, data) == DecomposeData(a, data).raw

\* Shared::is_null
IsNull(a, data) == AsRaw(a, data) = 0

\* Shared::tag
Tag(a, data) == DecomposeData(a, data).tag

\* Shared::with_tag
WithTag(a, data, tag) == DataWithTag(a, data, tag)

\* AtomicUsize::compare_exchange on a word: the word afterwards and the
\* result, Ok(previous) or Err(actual).
CompareExchange(word, current, new) ==
  IF word = current
  THEN [data |-> new, ok |-> TRUE, val |-> word]
  ELSE [data |-> word, ok |-> FALSE, val |-> word]

\* Mutant of CompareAndSet: the word is stored whatever the slot held.
CompareAndSet_Blind(word, current, new) ==
  [data |-> new, ok |-> TRUE, current |-> 0, new |-> new]

\* Atomic::compare_and_set(current, new) on a slot holding word: the slot
\* afterwards and the result, Ok(Shared::from_usize(new)) or
\* Err(CompareAndSetError { current, new }).  Pointer::into_usize and
\* from_usize of Shared hand the word on as it is.
CompareAndSet(word, current, new) ==
  LET x == CompareExchange(word, current, new)
  IN IF x.ok
     THEN [data |-> x.data, ok |-> TRUE, current |-> 0, new |-> new]
     ELSE [data |-> x.data, ok |-> FALSE, current |-> x.val, new |-> new]

\* The threads that work on the one Atomic<T>.
PtrThreads == Threads

\* A thread that holds no pointer.  align is align_of::<T>(), raw the
\* pointer it obtained, tag the tag passed to with_tag, new the pointer it
\* holds now, current the value it expects in the slot, res the result of
\* its compare_and_set.
PtrIdle ==
  [pc |-> "idle", align |-> 1, raw |-> 0, tag |-> 0, new |-> 0, current |-> 0,
   res |-> [data |-> 0, ok |-> FALSE, current |-> 0, new |-> 0]]

\* Atomic::null(): one slot, root[1], holding the null word; T has one of
\* the alignments.
InitPtr ==
  /\ fprev = NoPrev
  /\ root = <<0>>
  /\ len = 0
  /\ resize_flag = FALSE
  /\ nodes = <<>>
  /\ inserted = {}
  /\ panicked = FALSE
  /\ hung = FALSE
  /\ last = <<>>
  /\ ninserts = 0
  /\ fpc = "idle"
  /\ fkeys = <<>>
  /\ fnode = 0
  /\ findex = 0
  /\ found = NewFound
  /\ fspin = 0
  /\ \E a \in Aligns : th = [t \in PtrThreads |-> [PtrIdle EXCEPT !.align = a]]
  /\ todo = {}
  /\ rgen = 0
  /\ uaf = FALSE

\* Owned::new(value).into_shared(): a non-null address aligned for T.
OwnedNew(t) ==
  /\ th[t].pc = "idle"
  /\ \E w \in Words :
       /\ w # 0
       /\ w % th[t].align = 0
       /\ Goto(t, [th[t] EXCEPT !.pc = "ptr", !.raw = w, !.new = w])
  /\ UNCHANGED <<trieVars, histVars, findVars, todo, memVars>>

\* Shared::null()
SharedNull(t) ==
  /\ th[t].pc = "idle"
  /\ Goto(t, [th[t] EXCEPT !.pc = "ptr", !.raw = 0, !.new = 0])
  /\ UNCHANGED <<trieVars, histVars, findVars, todo, memVars>>

\* new = new.with_tag(tag), of a pointer with or without a tag
SharedWithTag(t) ==
  /\ th[t].pc \in {"ptr", "tagged"}
  /\ \E tag \in Words :
       Goto(t, [th[t] EXCEPT !.pc = "tagged", !.tag = tag,
                             !.new = WithTag(th[t].align, th[t].new, tag)])
  /\ UNCHANGED <<trieVars, histVars, findVars, todo, memVars>>

\* current = slot.load(): the thread expects what it has read, not null.
AtomicLoad(t) ==
  /\ th[t].pc \in {"ptr", "tagged"}
  /\ th[t].current # root[1]
  /\ Goto(t, [th[t] EXCEPT !.current = root[1]])
  /\ UNCHANGED <<trieVars, histVars, findVars, todo, memVars>>

\* slot.compare_and_set(current, new)
AtomicCas(t) ==
  /\ th[t].pc \in {"ptr", "tagged"}
  /\ LET r == CompareAndSet(root[1], th[t].current, th[t].new)
     IN /\ root' = <<r.data>>
        /\ Goto(t, [th[t] EXCEPT !.pc = "done", !.res = r])
  /\ UNCHANGED <<len, resize_flag, nodes, panicked, hung, histVars, findVars,
               todo, memVars>>

NextPtr ==
  \E t \in PtrThreads :
    \/ OwnedNew(t)
    \/ SharedNull(t)
    \/ SharedWithTag(t)
    \/ AtomicLoad(t)
    \/ AtomicCas(t)

SpecPtr == InitPtr /\ [][NextPtr]_vars

\* C34: a compare_and_set stores new and returns Ok(new) if and only if
\* the slot's word equals the expected one; otherwise the slot keeps its
\* word and the error carries that word and the rejected new pointer; and
\* when every thread has tried to put a non-null word into the slot while
\* expecting null, exactly one of them has succeeded.
C34_CompareAndSet ==
  /\ [][\A t \in PtrThreads :
         (th[t].pc # "done" /\ th'[t].pc = "done") =>
           IF root[1] = th[t].current
           THEN /\ root'[1] = th[t].new
                /\ th'[t].res.ok
                /\ th'[t].res.new = th[t].new
           ELSE /\ root'[1] = root[1]
                /\ ~th'[t].res.ok
                /\ th'[t].res.current = root[1]
                /\ th'[t].res.new = th[t].new]_vars
  /\ []((\A t \in PtrThreads :
           th[t].pc = "done" /\ th[t].current = 0 /\ th[t].new # 0)
         => Cardinality({t \in PtrThreads : th[t].res.ok}) = 1)

\* C34 witness: both threads have tried to put their own tagged pointer
\* into the null slot; one has succeeded and the other holds an error with
\* the winner's word and its own pointer.
C34_Witness ==
  /\ \A t \in PtrThreads :
       th[t].pc = "done" /\ th[t].current = 0 /\ th[t].raw # 0 /\ th[t].tag = t
  /\ \E w \in PtrThreads :
       /\ th[w].res.ok
       /\ root[1] = th[w].new
       /\ \A t \in PtrThreads \ {w} :
            /\ ~th[t].res.ok
            /\ th[t].res.current = th[w].new
            /\ th[t].res.new = th[t].new
            /\ th[t].new # th[w].new

\* C35: a pointer that a thread has passed through with_tag, once or
\* several times, has the address part of the pointer the thread obtained
\* and the tag t mod alignment, t being the tag passed last; a null pointer
\* is still null, and with alignment 1 the tag is 0.
C35_TagPacking ==
  \A t \in PtrThreads :
    th[t].pc = "tagged" =>
      /\ Tag(th[t].align, th[t].new) = th[t].tag % th[t].align
      /\ AsRaw(th[t].align, th[t].new) = th[t].raw
      /\ th[t].new = th[t].raw + (th[t].tag % th[t].align)
      /\ th[t].raw = 0 => IsNull(th[t].align, th[t].new)
      /\ th[t].align = 1 => Tag(th[t].align, th[t].new) = 0

\* C35 witness: with alignment 8 one thread has tagged a non-null pointer
\* with a tag beyond the low bits and another has tagged the null pointer
\* with the tag 7: its word is 7 and it is still null.
C35_Witness ==
  /\ th[1].pc = "tagged" /\ th[1].align = 8 /\ th[1].raw = 8
  /\ th[1].tag = 15 /\ Tag(8, th[1].new) = 7
  /\ th[2].pc = "tagged" /\ th[2].raw = 0 /\ th[2].tag = 7
  /\ th[2].new = 7 /\ IsNull(8, th[2].new)

====
